---- MODULE Spec2Model ----
(***************************************************************************)
(* Course Data Validator (document-scanner-editor): the field validators   *)
(* of validators.py, the column normaliser and value cleaner of            *)
(* io_file.py, and the validation run of main.py with its progress window  *)
(* (progresswindow.py).                                                    *)
(*                                                                         *)
(* Text is modelled by TLA+ strings (Len, SubSeq and \o act on them).  A   *)
(* spreadsheet cell is a tagged value: a string, an integer (kept as the   *)
(* text str() gives) or the missing value NaN.                             *)
(***************************************************************************)
EXTENDS Integers, Sequences, FiniteSets, TLC

(***************************************************************************)
(* Bounds of the model.                                                    *)
(***************************************************************************)
MaxRows == 2

(***************************************************************************)
(* Python str primitives.                                                  *)
(***************************************************************************)
UPPER == "ABCDEFGHIJKLMNOPQRSTUVWXYZ"
LOWER == "abcdefghijklmnopqrstuvwxyz"
DIGITS == "0123456789"

Ch(s, i) == SubSeq(s, i, i)

IsIn(c, alphabet) == \E i \in 1..Len(alphabet) : Ch(alphabet, i) = c

IsSpace(c) == c = " " \/ c = "\t"

IsDigit(c) == IsIn(c, DIGITS)

IsUpper(c) == IsIn(c, UPPER)

IsAlpha(c) == IsIn(c, UPPER) \/ IsIn(c, LOWER)

LowerCh(c) ==
    IF IsUpper(c)
    THEN Ch(LOWER, CHOOSE i \in 1..Len(UPPER) : Ch(UPPER, i) = c)
    ELSE c

RECURSIVE ToLower(_)
ToLower(s) == IF s = "" THEN "" ELSE LowerCh(Ch(s, 1)) \o ToLower(SubSeq(s, 2, Len(s)))

RECURSIVE LStrip(_)
LStrip(s) == IF s # "" /\ IsSpace(Ch(s, 1)) THEN LStrip(SubSeq(s, 2, Len(s))) ELSE s

RECURSIVE RStrip(_)
RStrip(s) == IF s # "" /\ IsSpace(Ch(s, Len(s))) THEN RStrip(SubSeq(s, 1, Len(s) - 1)) ELSE s

Strip(s) == RStrip(LStrip(s))

Contains(sub, s) ==
    \E i \in 0..(Len(s) - Len(sub)) : SubSeq(s, i + 1, i + Len(sub)) = sub

StartsWith(s, prefix) ==
    Len(prefix) <= Len(s) /\ SubSeq(s, 1, Len(prefix)) = prefix

\* position of the first occurrence of the character c in s, 0 when absent
Find(s, c) ==
    IF \E i \in 1..Len(s) : Ch(s, i) = c
    THEN CHOOSE i \in 1..Len(s) : Ch(s, i) = c /\ \A j \in 1..(i - 1) : Ch(s, j) # c
    ELSE 0

\* s.split(c): the pieces between the occurrences of c, empty pieces kept
RECURSIVE Split(_, _)
Split(s, c) ==
    IF Find(s, c) = 0
    THEN <<s>>
    ELSE <<SubSeq(s, 1, Find(s, c) - 1)>> \o Split(SubSeq(s, Find(s, c) + 1, Len(s)), c)

\* position of the first white-space character of s, Len(s)+1 when none
RECURSIVE WordEnd(_, _)
WordEnd(s, i) == IF i > Len(s) \/ IsSpace(Ch(s, i)) THEN i ELSE WordEnd(s, i + 1)

\* s.split(): the maximal runs of non-space characters
RECURSIVE Words(_)
Words(s) ==
    IF LStrip(s) = ""
    THEN <<>>
    ELSE <<SubSeq(LStrip(s), 1, WordEnd(LStrip(s), 1) - 1)>>
         \o Words(SubSeq(LStrip(s), WordEnd(LStrip(s), 1), Len(LStrip(s))))

\* sep.join(parts)
RECURSIVE Join(_, _)
Join(parts, sep) ==
    IF parts = <<>> THEN ""
    ELSE IF Len(parts) = 1 THEN parts[1]
    ELSE parts[1] \o sep \o Join(Tail(parts), sep)

RECURSIVE IntToStr(_)
IntToStr(n) == IF n < 10 THEN Ch(DIGITS, n + 1) ELSE IntToStr(n \div 10) \o Ch(DIGITS, (n % 10) + 1)

DigitVal(c) == (CHOOSE i \in 1..10 : Ch(DIGITS, i) = c) - 1

RECURSIVE StrToInt(_)
StrToInt(s) == IF s = "" THEN 0 ELSE StrToInt(SubSeq(s, 1, Len(s) - 1)) * 10 + DigitVal(Ch(s, Len(s)))

AllDigits(s) == s # "" /\ \A i \in 1..Len(s) : IsDigit(Ch(s, i))

RECURSIVE SelectSeqStr(_)
\* the non-empty stripped members of a list of strings
SelectSeqStr(parts) ==
    IF parts = <<>> THEN <<>>
    ELSE IF Strip(parts[1]) # "" THEN <<Strip(parts[1])>> \o SelectSeqStr(Tail(parts))
    ELSE SelectSeqStr(Tail(parts))

StripAll(parts) == [i \in 1..Len(parts) |-> Strip(parts[i])]

Range(f) == {f[i] : i \in DOMAIN f}

(***************************************************************************)
(* float(str): optional sign, then inf / infinity / nan, or a decimal      *)
(* literal with optional fraction and exponent; digits may be grouped by   *)
(* single underscores; surrounding white space is ignored.                 *)
(***************************************************************************)
IsDigitPart(s) ==
    /\ s # ""
    /\ IsDigit(Ch(s, 1)) /\ IsDigit(Ch(s, Len(s)))
    /\ \A i \in 1..Len(s) : IsDigit(Ch(s, i)) \/ Ch(s, i) = "_"
    /\ \A i \in 1..(Len(s) - 1) : ~(Ch(s, i) = "_" /\ Ch(s, i + 1) = "_")

Unsigned(s) == IF s # "" /\ (Ch(s, 1) = "+" \/ Ch(s, 1) = "-") THEN SubSeq(s, 2, Len(s)) ELSE s

IsMantissa(s) ==
    LET d == Find(s, ".") IN
    IF d = 0 THEN IsDigitPart(s)
    ELSE LET ip == SubSeq(s, 1, d - 1)
             fp == SubSeq(s, d + 1, Len(s))
         IN  /\ (ip = "" \/ IsDigitPart(ip))
             /\ (fp = "" \/ IsDigitPart(fp))
             /\ ~(ip = "" /\ fp = "")

IsDecimal(s) ==
    LET e == Find(ToLower(s), "e") IN
    IF e = 0 THEN IsMantissa(s)
    ELSE IsMantissa(SubSeq(s, 1, e - 1)) /\ IsDigitPart(Unsigned(SubSeq(s, e + 1, Len(s))))

PyFloatOk(s) ==
    LET u == Unsigned(Strip(s)) IN
    ToLower(u) \in {"inf", "infinity", "nan"} \/ IsDecimal(u)

(***************************************************************************)
(* Cells.                                                                  *)
(***************************************************************************)
Str(s) == [t |-> "str", s |-> s]
Num(n) == [t |-> "int", s |-> IntToStr(n)]
NaN == [t |-> "nan", s |-> "nan"]

\* pd.isna(value)
IsNa(v) == v.t = "nan"

\* str(value)
PyStr(v) == v.s

\* value == ''
IsEmptyStr(v) == v.t = "str" /\ v.s = ""

(***************************************************************************)
(* datetime.strptime(date, '%Y-%m-%d'): four digits, '-', a month written  *)
(* 1..12 with an optional leading zero, '-', a day written 1..31 with an   *)
(* optional leading zero or space; the date must exist (year 1..9999).     *)
(***************************************************************************)
IsLeap(y) == (y % 4 = 0 /\ y % 100 # 0) \/ y % 400 = 0

DaysInMonth(y, m) ==
    IF m = 2 THEN (IF IsLeap(y) THEN 29 ELSE 28)
    ELSE IF m \in {4, 6, 9, 11} THEN 30 ELSE 31

\* the text forms the directive accepts for a number 1..hi
FieldOk(s, hi, spaceOk) ==
    \/ Len(s) = 1 /\ IsDigit(s) /\ s # "0"
    \/ Len(s) = 2 /\ AllDigits(s) /\ StrToInt(s) \in 1..hi
    \/ spaceOk /\ Len(s) = 2 /\ Ch(s, 1) = " " /\ IsDigit(Ch(s, 2)) /\ Ch(s, 2) # "0"

StrptimeOk(s) ==
    LET parts == Split(s, "-") IN
    /\ Len(parts) = 3
    /\ Len(parts[1]) = 4 /\ AllDigits(parts[1])
    /\ FieldOk(parts[2], 12, FALSE)
    /\ FieldOk(parts[3], 31, TRUE)
    /\ StrToInt(parts[1]) >= 1
    /\ StrToInt(LStrip(parts[3])) <= DaysInMonth(StrToInt(parts[1]), StrToInt(parts[2]))

(***************************************************************************)
(* urlparse(url): the scheme is the text before the first ':' when it      *)
(* starts with a letter and holds only letters, digits, '+', '-', '.'; the *)
(* netloc is what follows '//' up to the next '/', '?' or '#'.             *)
(***************************************************************************)
IsSchemeChar(c) == IsAlpha(c) \/ IsDigit(c) \/ c \in {"+", "-", "."}

UrlScheme(url) ==
    LET i == Find(url, ":") IN
    IF i > 1 /\ IsAlpha(Ch(url, 1)) /\ \A j \in 1..(i - 1) : IsSchemeChar(Ch(url, j))
    THEN ToLower(SubSeq(url, 1, i - 1))
    ELSE ""

UrlRest(url) ==
    IF UrlScheme(url) = "" THEN url ELSE SubSeq(url, Find(url, ":") + 1, Len(url))

RECURSIVE NetlocEnd(_, _)
NetlocEnd(s, i) ==
    IF i > Len(s) \/ Ch(s, i) \in {"/", "?", "#"} THEN i ELSE NetlocEnd(s, i + 1)

UrlNetloc(url) ==
    LET r == UrlRest(url) IN
    IF StartsWith(r, "//") THEN SubSeq(r, 3, NetlocEnd(r, 3) - 1) ELSE ""

\* urlparse raises ValueError on an unbalanced IPv6 bracket in the netloc
UrlParseRaises(url) ==
    LET n == UrlNetloc(url) IN
    (Contains("[", n) /\ ~Contains("]", n)) \/ (Contains("]", n) /\ ~Contains("[", n))

(***************************************************************************)
(* validators.py: CourseValidators                                         *)
(***************************************************************************)
allowed_statuses == <<"Open", "Closed">>
allowed_study_modes == <<"Full time", "Part time">>
allowed_show_values == <<"Yes", "No">>

conjunctions ==
    {"and", "with", "by", "of", "the", "in", "on", "at", "to", "for",
     "from", "up", "about", "into", "through", "during", "before",
     "after", "above", "below", "between", "among", "within", "without",
     "against", "toward", "towards", "upon", "under", "over", "across"}

\* what a validator call yields: a {valid, message} dict, or an exception
Verdict(valid, message) == [raised |-> FALSE, valid |-> valid, message |-> message]
Raised(exc) == [raised |-> TRUE, valid |-> FALSE, message |-> exc]

validate_institution_id(value) ==
    IF IsNa(value) \/ IsEmptyStr(value)
    THEN Verdict(FALSE, "Institution Id cannot be blank")
    ELSE IF PyFloatOk(PyStr(value))
         THEN Verdict(TRUE, "Valid institution ID")
         ELSE Verdict(FALSE, "Institution Id must be numeric")

\* all_course_ids.count(value)
Count(list, value) == Cardinality({i \in 1..Len(list) : list[i] = value})

\* variant: a single occurrence already counts as a duplicate
validate_course_id_offbyone(value, all_course_ids) ==
    IF IsNa(value) \/ IsEmptyStr(value)
    THEN Verdict(FALSE, "Course Id cannot be blank")
    ELSE IF ~PyFloatOk(PyStr(value))
         THEN Verdict(FALSE, "Course Id must be numeric")
         ELSE IF Count(all_course_ids, value) >= 1
              THEN Verdict(FALSE, "Course Id must be unique")
              ELSE Verdict(TRUE, "Valid course ID")

\* variant: the uniqueness check made before the numeric check
validate_course_id_uniquefirst(value, all_course_ids) ==
    IF IsNa(value) \/ IsEmptyStr(value)
    THEN Verdict(FALSE, "Course Id cannot be blank")
    ELSE IF Count(all_course_ids, value) > 1
         THEN Verdict(FALSE, "Course Id must be unique")
         ELSE IF ~PyFloatOk(PyStr(value))
              THEN Verdict(FALSE, "Course Id must be numeric")
              ELSE Verdict(TRUE, "Valid course ID")

validate_course_id(value, all_course_ids) ==
    IF IsNa(value) \/ IsEmptyStr(value)
    THEN Verdict(FALSE, "Course Id cannot be blank")
    ELSE IF ~PyFloatOk(PyStr(value))
         THEN Verdict(FALSE, "Course Id must be numeric")
         ELSE IF Count(all_course_ids, value) > 1
              THEN Verdict(FALSE, "Course Id must be unique")
              ELSE Verdict(TRUE, "Valid course ID")

\* variant: the last such word is reported
FirstBadWord_last(words) ==
    LET bad == {i \in 2..Len(words) :
                   ToLower(words[i]) \in conjunctions /\ IsUpper(Ch(words[i], 1))}
    IN  IF bad = {} THEN 0 ELSE CHOOSE i \in bad : \A j \in bad : i >= j

\* the first word after the first that is a capitalised conjunction, 0 if none
FirstBadWord(words) ==
    LET bad == {i \in 2..Len(words) :
                   ToLower(words[i]) \in conjunctions /\ IsUpper(Ch(words[i], 1))}
    IN  IF bad = {} THEN 0 ELSE CHOOSE i \in bad : \A j \in bad : i <= j

validate_course_name(value) ==
    IF IsNa(value) \/ IsEmptyStr(value)
    THEN Verdict(FALSE, "Course Name cannot be blank")
    ELSE LET course_name == Strip(PyStr(value))
             words == Words(course_name)
         IN  IF course_name = ""
             THEN Raised("IndexError")          \* course_name[0] of ''
             ELSE IF ~IsUpper(Ch(course_name, 1))
             THEN Verdict(FALSE, "Course Name must start with capital letter")
             ELSE IF FirstBadWord(words) # 0
             THEN Verdict(FALSE, "Conjunction \"" \o words[FirstBadWord(words)]
                                  \o "\" should be lowercase")
             ELSE Verdict(TRUE, "Valid course name")

IsBlank(value) == IsNa(value) \/ Strip(PyStr(value)) = ""

validate_l3_tagging(value) ==
    IF IsBlank(value)
    THEN Verdict(FALSE, "L3 Tagging must not be blank")
    ELSE Verdict(TRUE, "Valid L3 tagging")

validate_degree_type(value) ==
    IF IsBlank(value)
    THEN Verdict(FALSE, "Degree Type must not be blank")
    ELSE Verdict(TRUE, "Valid degree type")

validate_course_type(value) ==
    IF IsBlank(value)
    THEN Verdict(FALSE, "Course Type must not be blank")
    ELSE Verdict(TRUE, "Valid course type")

\* the first component strptime rejects, 0 if none
FirstBadDate(dates) ==
    LET bad == {i \in 1..Len(dates) : ~StrptimeOk(dates[i])}
    IN  IF bad = {} THEN 0 ELSE CHOOSE i \in bad : \A j \in bad : i <= j

validate_course_start_date(value) ==
    IF IsBlank(value)
    THEN Verdict(FALSE, "Course start date cannot be blank")
    ELSE LET date_str == Strip(PyStr(value))
             dates == IF Contains(",", date_str)
                      THEN StripAll(Split(date_str, ","))
                      ELSE <<date_str>>
         IN  IF FirstBadDate(dates) # 0
             THEN Verdict(FALSE, "Invalid date format: " \o dates[FirstBadDate(dates)]
                                  \o ". Must be YYYY-MM-DD")
             ELSE Verdict(TRUE, "Valid course start date")

(***************************************************************************)
(* What requests.head(url, timeout=10, ...) can do for one URL: answer     *)
(* with an HTTP status, or raise Timeout, ConnectionError or another       *)
(* RequestException (whose text may or may not mention 403 / 401).         *)
(***************************************************************************)
ProbeOutcomes ==
    {"200", "401", "403", "404", "410", "429", "500", "502", "503", "504",
     "Timeout", "ConnectionError", "RequestException", "RequestException 403"}

StatusText(code) ==
    CASE code = "404" -> "404 (Not Found)"
      [] code = "410" -> "410 (Gone)"
      [] code = "500" -> "500 (Server Error)"
      [] code = "502" -> "502 (Bad Gateway)"
      [] code = "503" -> "503 (Service Unavailable)"
      [] code = "504" -> "504 (Gateway Timeout)"
      [] OTHER -> ""

\* variant: a probe answered 403 counts as a broken URL
UrlErrors_flag403(rawUrl, outcome) ==
    LET url == Strip(rawUrl) IN
    IF url = "" THEN <<>>
    ELSE IF UrlParseRaises(url) \/ UrlScheme(url) = "" \/ UrlNetloc(url) = ""
    THEN <<"Invalid URL format: " \o url>>
    ELSE IF StatusText(outcome) # "" \/ outcome = "403"
    THEN <<"URL returns " \o StatusText(outcome) \o ": " \o url>>
    ELSE IF outcome = "Timeout"
    THEN <<"URL timeout (server not responding): " \o url>>
    ELSE IF outcome = "ConnectionError"
    THEN <<"URL connection error (server unreachable): " \o url>>
    ELSE IF outcome = "RequestException"
    THEN <<"URL not accessible: " \o url>>
    ELSE <<>>

\* the errors one entry of value.split(',') adds, given its probe's outcome
UrlErrors(rawUrl, outcome) ==
    LET url == Strip(rawUrl) IN
    IF url = "" THEN <<>>
    ELSE IF UrlParseRaises(url) \/ UrlScheme(url) = "" \/ UrlNetloc(url) = ""
    THEN <<"Invalid URL format: " \o url>>
    ELSE IF StatusText(outcome) # ""
    THEN <<"URL returns " \o StatusText(outcome) \o ": " \o url>>
    ELSE IF outcome = "Timeout"
    THEN <<"URL timeout (server not responding): " \o url>>
    ELSE IF outcome = "ConnectionError"
    THEN <<"URL connection error (server unreachable): " \o url>>
    ELSE IF outcome = "RequestException"
    THEN <<"URL not accessible: " \o url>>
    ELSE <<>>

RECURSIVE AllUrlErrors(_, _, _)
AllUrlErrors(urls, probes, i) ==
    IF i > Len(urls) THEN <<>>
    ELSE UrlErrors(urls[i], probes[i]) \o AllUrlErrors(urls, probes, i + 1)

\* probes[i] is the outcome of the probe of the i-th comma-separated entry
validate_course_level_url(value, probes) ==
    IF IsBlank(value)
    THEN Verdict(FALSE, "Course Level URL cannot be blank")
    ELSE LET errors == AllUrlErrors(Split(PyStr(value), ","), probes, 1)
         IN  IF errors # <<>>
             THEN Verdict(FALSE, Join(errors, "; "))
             ELSE Verdict(TRUE, "All URLs are working")

validate_course_intake_ids(intake_ids, start_dates) ==
    IF IsNa(intake_ids) \/ IsNa(start_dates)
    THEN Verdict(FALSE, "Course Intake IDs and Course start date cannot be blank")
    ELSE LET intake_list == SelectSeqStr(Split(PyStr(intake_ids), ","))
             intake_count == Len(intake_list)
             date_count ==
                 IF Contains(",", PyStr(start_dates))
                 THEN Len(SelectSeqStr(Split(PyStr(start_dates), ",")))
                 ELSE IF Strip(PyStr(start_dates)) # "" THEN 1 ELSE 0
         IN  IF intake_count # date_count
             THEN Verdict(FALSE, "Intake IDs count (" \o IntToStr(intake_count)
                                  \o ") must match start dates count ("
                                  \o IntToStr(date_count) \o ")")
             ELSE IF Len(intake_list) # Cardinality(Range(intake_list))
             THEN Verdict(FALSE, "Course Intake IDs must be unique")
             ELSE Verdict(TRUE, "Valid course intake IDs")

validate_show(value) ==
    IF IsBlank(value)
    THEN Verdict(FALSE, "Show field cannot be blank")
    ELSE IF Strip(PyStr(value)) \notin Range(allowed_show_values)
         THEN Verdict(FALSE, "Show must be one of: " \o Join(allowed_show_values, ", "))
         ELSE Verdict(TRUE, "Valid show value")

validate_course_status(value) ==
    IF IsBlank(value)
    THEN Verdict(FALSE, "Course Status cannot be blank")
    ELSE LET status_value == Strip(PyStr(value))
             statuses == StripAll(Split(status_value, ","))
             invalid_statuses ==
                 SelectSeq(statuses, LAMBDA st : st \notin Range(allowed_statuses))
         IN  IF Contains(",", status_value)
             THEN IF invalid_statuses # <<>>
                  THEN Verdict(FALSE, "Invalid status values: "
                                       \o Join(invalid_statuses, ", ")
                                       \o ". Must be one of: "
                                       \o Join(allowed_statuses, ", "))
                  ELSE Verdict(TRUE, "Valid course status")
             ELSE IF status_value \notin Range(allowed_statuses)
                  THEN Verdict(FALSE, "Course Status must be one of: "
                                       \o Join(allowed_statuses, ", "))
                  ELSE Verdict(TRUE, "Valid course status")

\* variant: the comparison ignores letter case
validate_study_mode_anycase(value) ==
    IF IsBlank(value)
    THEN Verdict(FALSE, "Study Mode cannot be blank")
    ELSE IF ToLower(Strip(PyStr(value))) \notin {ToLower(m) : m \in Range(allowed_study_modes)}
         THEN Verdict(FALSE, "Study Mode must be one of: " \o Join(allowed_study_modes, ", "))
         ELSE Verdict(TRUE, "Valid study mode")

validate_study_mode(value) ==
    IF IsBlank(value)
    THEN Verdict(FALSE, "Study Mode cannot be blank")
    ELSE IF Strip(PyStr(value)) \notin Range(allowed_study_modes)
         THEN Verdict(FALSE, "Study Mode must be one of: " \o Join(allowed_study_modes, ", "))
         ELSE Verdict(TRUE, "Valid study mode")

(***************************************************************************)
(* validate_all_fields: the twelve checks in the order of the source.  A   *)
(* row is a function from its headers to cells.                            *)
(***************************************************************************)
ValidatedColumns ==
    <<"Institution Id", "Course Id", "Course Name", "L3 Tagging", "Degree Type",
      "Course Type", "Course start date", "Course Level URL", "Course Intake Ids",
      "Show", "Course Status", "Study Mode">>

\* the guard of a column's block
FieldPresent(column, row) ==
    IF column = "Course Intake Ids"
    THEN "Course Intake Ids" \in DOMAIN row /\ "Course start date" \in DOMAIN row
    ELSE column \in DOMAIN row

\* the validator call of a column's block
FieldResult(column, row, all_course_ids, probes) ==
    CASE column = "Institution Id" -> validate_institution_id(row[column])
      [] column = "Course Id" -> validate_course_id(row[column], all_course_ids)
      [] column = "Course Name" -> validate_course_name(row[column])
      [] column = "L3 Tagging" -> validate_l3_tagging(row[column])
      [] column = "Degree Type" -> validate_degree_type(row[column])
      [] column = "Course Type" -> validate_course_type(row[column])
      [] column = "Course start date" -> validate_course_start_date(row[column])
      [] column = "Course Level URL" -> validate_course_level_url(row[column], probes)
      [] column = "Course Intake Ids" ->
             validate_course_intake_ids(row[column], row["Course start date"])
      [] column = "Show" -> validate_show(row[column])
      [] column = "Course Status" -> validate_course_status(row[column])
      [] column = "Study Mode" -> validate_study_mode(row[column])

\* variant: the message is searched for 'Unique' as written, case kept
ErrorType_casekept(column, message) ==
    CASE column = "Institution Id" -> "Numeric"
      [] column = "Course Id" ->
             IF Contains("Unique", message) THEN "Unique" ELSE "Numeric"
      [] column = "Course Name" -> "Capitalization"
      [] column \in {"L3 Tagging", "Degree Type", "Course Type"} -> "Blank"
      [] column = "Course start date" -> "Date"
      [] column = "Course Level URL" -> "URL"
      [] column = "Course Intake Ids" -> "Count"
      [] column \in {"Show", "Course Status", "Study Mode"} -> "Status"

\* the error_type a column's block writes
ErrorType(column, message) ==
    CASE column = "Institution Id" -> "Numeric"
      [] column = "Course Id" ->
             IF Contains("unique", ToLower(message)) THEN "Unique" ELSE "Numeric"
      [] column = "Course Name" -> "Capitalization"
      [] column \in {"L3 Tagging", "Degree Type", "Course Type"} -> "Blank"
      [] column = "Course start date" -> "Date"
      [] column = "Course Level URL" -> "URL"
      [] column = "Course Intake Ids" -> "Count"
      [] column \in {"Show", "Course Status", "Study Mode"} -> "Status"

ErrorRecord(row_index, column, row, result) ==
    [row |-> row_index + 1,
     column |-> column,
     error_type |-> ErrorType(column, result.message),
     message |-> result.message,
     value |-> PyStr(row[column])]

RECURSIVE FieldErrors(_, _, _, _, _)
FieldErrors(i, row, row_index, all_course_ids, probes) ==
    IF i > Len(ValidatedColumns) THEN <<>>
    ELSE LET column == ValidatedColumns[i]
             rest == FieldErrors(i + 1, row, row_index, all_course_ids, probes)
         IN  IF ~FieldPresent(column, row) THEN rest
             ELSE LET result == FieldResult(column, row, all_course_ids, probes)
                  IN  IF result.valid THEN rest
                      ELSE <<ErrorRecord(row_index, column, row, result)>> \o rest

\* raised: an exception left a validator and so the function
validate_all_fields(row, row_index, all_course_ids, probes) ==
    IF \E i \in 1..Len(ValidatedColumns) :
           /\ FieldPresent(ValidatedColumns[i], row)
           /\ FieldResult(ValidatedColumns[i], row, all_course_ids, probes).raised
    THEN [raised |-> TRUE, errors |-> <<>>]
    ELSE [raised |-> FALSE,
          errors |-> FieldErrors(1, row, row_index, all_course_ids, probes)]

(***************************************************************************)
(* Datasets (pandas DataFrames): the ordered headers and the rows; None is *)
(* the absent dataset.                                                     *)
(***************************************************************************)
Df(cols, rows) == [none |-> FALSE, cols |-> cols, rows |-> rows]
None == [none |-> TRUE, cols |-> <<>>, rows |-> <<>>]

HasCol(d, c) == c \in Range(d.cols)

\* df[c] = v for a column the dataset does not have yet
AddCol(d, c, v) ==
    Df(Append(d.cols, c), [i \in 1..Len(d.rows) |->
                              [h \in DOMAIN d.rows[i] \cup {c} |->
                                  IF h = c THEN v ELSE d.rows[i][h]]])

(***************************************************************************)
(* io_file.py: ExcelFileHandler                                            *)
(***************************************************************************)
expected_columns ==
    <<"Institution Id", "Course Id", "Course Type", "Degree Type", "Course Name",
      "L3 Tagging", "Course Intake Ids", "Course start date",
      "Course Level Tuition Fees", "Application Fees", "Application Deadline Date",
      "Course Level URL", "Course Status", "Show", "Study Mode",
      "Previous Education", "Commissionable">>

\* the variations dict, in its declared order
variations ==
    <<<<"Instituti", "Institution Id">>,
      <<"Course I", "Course Id">>,
      <<"Course TDegree", "Degree Type">>,
      <<"Course", "Course Name">>,
      <<"L3 Taggi", "L3 Tagging">>,
      <<"Course sCourse", "Course start date">>,
      <<"LApplicati", "Course Level Tuition Fees">>,
      <<"Applicati", "Application Fees">>,
      <<"Course LCourse SShow", "Course Level URL">>,
      <<"Study M", "Study Mode">>,
      <<"Previous", "Previous Education">>,
      <<"Commissionable", "Commissionable">>>>

VariationMatches(col, variation) == StartsWith(col, variation) \/ Contains(variation, col)

\* variant: a header that matches nothing is dropped
NormalizeHeader_nopassthrough(col) ==
    LET hits == {i \in 1..Len(variations) : VariationMatches(col, variations[i][1])} IN
    IF col \in Range(expected_columns) THEN col
    ELSE IF hits = {} THEN ""
    ELSE variations[CHOOSE i \in hits : \A j \in hits : i <= j][2]

\* column_mapping[col]
NormalizeHeader(col) ==
    LET hits == {i \in 1..Len(variations) : VariationMatches(col, variations[i][1])} IN
    IF col \in Range(expected_columns) THEN col
    ELSE IF hits = {} THEN col
    ELSE variations[CHOOSE i \in hits : \A j \in hits : i <= j][2]

normalize_column_names(columns) == [col \in Range(columns) |-> NormalizeHeader(col)]

\* cleaned_df.replace(['NULL', 'NUL', 'null', 'nul'], '')
ReplaceNull(v) ==
    IF v.t = "str" /\ v.s \in {"NULL", "NUL", "null", "nul"} THEN Str("") ELSE v

\* the first position at which \d{4}-\d{2}-\d{2} matches, 0 if none
DateMatchAt(s, i) ==
    /\ i + 9 <= Len(s)
    /\ \A k \in {0, 1, 2, 3, 5, 6, 8, 9} : IsDigit(Ch(s, i + k))
    /\ Ch(s, i + 4) = "-" /\ Ch(s, i + 7) = "-"

\* variant: a text that lists several dates is kept whole
_clean_date_format_keepall(date_str) ==
    IF date_str = "" THEN ""
    ELSE LET st == Strip(date_str)
             hits == {i \in 1..Len(st) : DateMatchAt(st, i)}
         IN  IF hits # {} /\ ~Contains(",", st)
             THEN SubSeq(st, CHOOSE i \in hits : \A j \in hits : i <= j,
                             (CHOOSE i \in hits : \A j \in hits : i <= j) + 9)
             ELSE st

_clean_date_format(date_str) ==
    IF date_str = "" THEN ""
    ELSE LET st == Strip(date_str)
             hits == {i \in 1..Len(st) : DateMatchAt(st, i)}
         IN  IF hits # {}
             THEN SubSeq(st, CHOOSE i \in hits : \A j \in hits : i <= j,
                             (CHOOSE i \in hits : \A j \in hits : i <= j) + 9)
             ELSE st

_normalize_study_mode(mode) ==
    IF mode = "" THEN ""
    ELSE IF Contains("full", ToLower(Strip(mode))) THEN "Full time"
    ELSE IF Contains("part", ToLower(Strip(mode))) THEN "Part time"
    ELSE Strip(mode)

\* variant: the URL is what precedes the last comma
ExtractRow_lastcomma(row) ==
    LET combined_value == PyStr(row["Course Level URL"])
        parts == Split(combined_value, ",")
        url_part == Strip(Join(SubSeq(parts, 1, Len(parts) - 1), ","))
        status_part == Strip(parts[Len(parts)])
    IN  IF ~Contains(",", combined_value) THEN row
        ELSE [h \in DOMAIN row |->
                 CASE h = "Course Level URL" -> Str(url_part)
                   [] h = "Course Status" ->
                          IF Contains("Open", status_part) THEN Str("Open")
                          ELSE IF Contains("Closed", status_part) THEN Str("Closed")
                          ELSE row[h]
                   [] h = "Show" ->
                          IF Contains("Yes", status_part) THEN Str("Yes")
                          ELSE IF Contains("No", status_part) THEN Str("No")
                          ELSE row[h]
                   [] OTHER -> row[h]]

\* what the loop body makes of one row
ExtractRow(row) ==
    LET combined_value == PyStr(row["Course Level URL"])
        parts == Split(combined_value, ",")
        url_part == Strip(parts[1])
        status_part == Strip(Join(Tail(parts), ","))
    IN  IF ~Contains(",", combined_value) THEN row
        ELSE [h \in DOMAIN row |->
                 CASE h = "Course Level URL" -> Str(url_part)
                   [] h = "Course Status" ->
                          IF Contains("Open", status_part) THEN Str("Open")
                          ELSE IF Contains("Closed", status_part) THEN Str("Closed")
                          ELSE row[h]
                   [] h = "Show" ->
                          IF Contains("Yes", status_part) THEN Str("Yes")
                          ELSE IF Contains("No", status_part) THEN Str("No")
                          ELSE row[h]
                   [] OTHER -> row[h]]

_extract_status_and_show(d) ==
    IF ~HasCol(d, "Course Level URL") THEN d
    ELSE LET d1 == IF HasCol(d, "Course Status") THEN d ELSE AddCol(d, "Course Status", Str(""))
             d2 == IF HasCol(d1, "Show") THEN d1 ELSE AddCol(d1, "Show", Str(""))
         IN  Df(d2.cols, [i \in 1..Len(d2.rows) |-> ExtractRow(d2.rows[i])])

\* df[c].astype(str).apply(...) for the two cleaned columns
CleanCell(h, v) ==
    IF h = "Course start date" THEN Str(_clean_date_format(PyStr(v)))
    ELSE IF h = "Study Mode" THEN Str(_normalize_study_mode(PyStr(v)))
    ELSE v

clean_data(d) ==
    LET c1 == Df(d.cols, [i \in 1..Len(d.rows) |->
                             [h \in DOMAIN d.rows[i] |-> ReplaceNull(d.rows[i][h])]])
        c3 == Df(c1.cols, [i \in 1..Len(c1.rows) |->
                              [h \in DOMAIN c1.rows[i] |-> CleanCell(h, c1.rows[i][h])]])
    IN  IF HasCol(c3, "Course Level URL") THEN _extract_status_and_show(c3) ELSE c3

\* the start colour of the fill of each error category
error_colors ==
    [Numeric |-> "FFE6E6", Unique |-> "FFB366", Capitalization |-> "FFFF99",
     Blank |-> "FFCCCC", Date |-> "CCE5FF", URL |-> "FF9999", Count |-> "CC99FF",
     Status |-> "99CCFF"]

\* the fill a data cell of the sheet gets, "" when it is left without one;
\* row_idx is the sheet row (2 for the first data row), col_idx is not used
_apply_error_highlighting(row_idx, col_idx, validation_errors) ==
    LET hits == {i \in 1..Len(validation_errors) :
                    /\ validation_errors[i].row = row_idx - 1
                    /\ validation_errors[i].error_type \in DOMAIN error_colors}
    IN  IF hits = {} THEN ""
        ELSE error_colors[validation_errors[CHOOSE i \in hits : \A j \in hits : i <= j]
                              .error_type]

\* the 'Validated Data' sheet: the fill of each data cell and the trailing
\* error count of each data row, both by sheet row
write_excel_with_validation_results(d, validation_errors) ==
    [fill |-> [row_idx \in 2..(Len(d.rows) + 1) |->
                  [col_idx \in 1..Len(d.cols) |->
                      _apply_error_highlighting(row_idx, col_idx, validation_errors)]],
     error_count |-> [row_idx \in 2..(Len(d.rows) + 1) |->
                         Cardinality({i \in 1..Len(validation_errors) :
                                         validation_errors[i].row = row_idx - 1})]]

(***************************************************************************)
(* The source files a run can read: every dataset of at most MaxRows rows  *)
(* over a few schemas, the cells of each column drawn from a pool that     *)
(* holds valid, invalid, blank, white-space and missing values.            *)
(***************************************************************************)
IdPool == {Num(7), Str("AB"), NaN}

RowsA == {("Course Id" :> a) : a \in IdPool}

RowsB == {("Instituti" :> Str("ABC")) @@ ("Course I" :> Num(5)) @@ ("Study M" :> Str("Part"))}

RowsC == {("Course Level URL" :> Str("https://e.x/c,OpenYes"))
              @@ ("Course start date" :> Str("2024-09-015720"))
              @@ ("Course Intake Ids" :> Str("1")) @@ ("Study Mode" :> Str("Full Time")),
          ("Course Level URL" :> Str("e.x"))
              @@ ("Course start date" :> NaN)
              @@ ("Course Intake Ids" :> Str("1,2")) @@ ("Study Mode" :> Str("NULL"))}

RowsD == {("Course Name" :> Str("Film And TV")) @@ ("L3 Tagging" :> Str("")),
          ("Course Name" :> Str(" ")) @@ ("L3 Tagging" :> Str("Law"))}

Datasets(cols, rowSet) ==
    {Df(cols, rows) : rows \in UNION {[1..n -> rowSet] : n \in 0..MaxRows}}

Files ==
    Datasets(<<"Course Id">>, RowsA)
    \cup Datasets(<<"Instituti", "Course I", "Study M">>, RowsB)
    \cup Datasets(<<"Course Level URL", "Course start date", "Course Intake Ids",
                    "Study Mode">>, RowsC)
    \cup Datasets(<<"Course Name", "L3 Tagging">>, RowsD)

\* what the first worksheet behind the sheet URL can hold
SheetData ==
    {Df(<<"Course Id">>, <<("Course Id" :> Num(7)), ("Course Id" :> Num(7))>>),
     Df(<<"Course Name">>, <<("Course Name" :> Str("law"))>>)}

\* the files the user can pick, and the sheet URLs the user can type
Paths == {"data.csv"}
SheetUrls == {"https://docs.google.com/spreadsheets/d/s1"}

\* the outcomes of the URL probe that the runs of the application meet
RunProbes == {"200", "Timeout"}

(***************************************************************************)
(* main.py: CourseDataValidatorApp, and progresswindow.py: ProgressWindow  *)
(***************************************************************************)
VARIABLES
    df,                \* self.df
    validation_errors, \* self.validation_errors
    is_validating,     \* self.is_validating
    file_path_var,     \* the file entry
    sheets_url_var,    \* the Google Sheets entry
    status_var,        \* the status bar
    start_enabled,     \* state of start_button
    export_enabled,    \* state of export_button
    progress_window,   \* self.progress_window: none, or its window and flag
    pc,                \* where the worker thread stands, "none" without one
    wlocal,            \* the worker's locals: all_course_ids, the iterated
                       \* dataset, the next row, a pending exception
    pending,           \* the callback posted by root.after(0, ...)
    loaded,            \* history: the dataset as read from the source
    validated,         \* history: the rows validated in the current run
    cancel_hist,       \* history: in the current run Cancel was not pressed
                       \* ("none"), was "pressed", or "stopped" the row loop
    call,              \* a call of a pure function
    ret                \* and what it returned

appvars == <<df, validation_errors, is_validating, file_path_var, sheets_url_var,
             status_var, start_enabled, export_enabled, progress_window, pc, wlocal,
             pending, loaded, validated, cancel_hist>>

vars == <<df, validation_errors, is_validating, file_path_var, sheets_url_var,
          status_var, start_enabled, export_enabled, progress_window, pc, wlocal,
          pending, loaded, validated, cancel_hist, call, ret>>

NoWindow == [created |-> FALSE, exists |-> FALSE, cancelled |-> FALSE]
NoLocals == [all_course_ids |-> <<>>, iter |-> None, index |-> 0, exc |-> ""]
NoCall == [fn |-> "none"]
NoRet == [done |-> FALSE]

\* CourseDataValidatorApp.__init__
AppInit ==
    /\ df = None
    /\ validation_errors = <<>>
    /\ is_validating = FALSE
    /\ file_path_var = ""
    /\ sheets_url_var = ""
    /\ status_var = "Ready to validate data"
    /\ start_enabled = TRUE
    /\ export_enabled = FALSE
    /\ progress_window = NoWindow
    /\ pc = "none"
    /\ wlocal = NoLocals
    /\ pending = "none"
    /\ loaded = None
    /\ validated = <<>>
    /\ cancel_hist = "none"

Init == AppInit /\ call = NoCall /\ ret = NoRet

\* the progress window holds the input grab while it exists
Grabbed == progress_window.exists

browse_file ==
    /\ ~Grabbed
    /\ \E file_path \in Paths \cup {""} :
          IF file_path # ""
          THEN /\ file_path_var' = file_path
               /\ sheets_url_var' = ""
               /\ status_var' = "Selected file: " \o file_path
          ELSE UNCHANGED <<file_path_var, sheets_url_var, status_var>>
    /\ UNCHANGED <<df, validation_errors, is_validating, start_enabled, export_enabled,
                   progress_window, pc, wlocal, pending, loaded, validated,
                   cancel_hist, call, ret>>

\* re.search(r'/spreadsheets/d/([a-zA-Z0-9-_]+)', url)
IsIdChar(c) == IsAlpha(c) \/ IsDigit(c) \/ c = "-" \/ c = "_"

extract_sheet_id(url) ==
    LET pat == "/spreadsheets/d/"
        hits == {i \in 1..Len(url) :
                    /\ i + Len(pat) <= Len(url)
                    /\ SubSeq(url, i, i + Len(pat) - 1) = pat
                    /\ IsIdChar(Ch(url, i + Len(pat)))}
        RECURSIVE IdEnd(_)
        IdEnd(j) == IF j > Len(url) \/ ~IsIdChar(Ch(url, j)) THEN j ELSE IdEnd(j + 1)
    IN  IF hits = {} THEN ""
        ELSE LET i == (CHOOSE i \in hits : \A j \in hits : i <= j) + Len(pat)
             IN  SubSeq(url, i, IdEnd(i) - 1)

\* the entry holds what it held or what the user typed before the click
load_google_sheets ==
    /\ ~Grabbed
    /\ \E url \in SheetUrls \cup {sheets_url_var} :
          /\ sheets_url_var' = url
          /\ IF Strip(url) = "" \/ extract_sheet_id(Strip(url)) = ""
             THEN UNCHANGED <<df, status_var, file_path_var, loaded>>
             ELSE \E data \in SheetData \cup {None} :  \* load_sheets_data
                     /\ df' = data
                     /\ loaded' = data
                     /\ IF data # None
                        THEN /\ status_var' = "Loaded " \o IntToStr(Len(data.rows))
                                               \o " rows from Google Sheets"
                             /\ file_path_var' = ""
                        ELSE /\ status_var' = "Failed to load Google Sheets data"
                             /\ UNCHANGED file_path_var
    /\ UNCHANGED <<validation_errors, is_validating, start_enabled,
                   export_enabled, progress_window, pc, wlocal, pending, validated,
                   cancel_hist, call, ret>>

\* variant: the reader's failure leaves an empty dataset behind
LoadFailed_partial ==
    /\ status_var' = "Error loading file"
    /\ df' = Df(<<>>, <<>>)
    /\ UNCHANGED <<validation_errors, is_validating, file_path_var, sheets_url_var,
                   start_enabled, export_enabled, progress_window, pc, wlocal, pending,
                   loaded, validated, cancel_hist>>

\* start_validation, lines 392-395: the reader raised
LoadFailed ==
    /\ status_var' = "Error loading file"
    /\ UNCHANGED <<df, validation_errors, is_validating, file_path_var, sheets_url_var,
                   start_enabled, export_enabled, progress_window, pc, wlocal, pending,
                   loaded, validated, cancel_hist>>

\* start_validation, lines 397-407: clean the held dataset, start the worker
StartWorker(data) ==
    /\ df' = clean_data(data)
    /\ is_validating' = TRUE
    /\ start_enabled' = FALSE
    /\ status_var' = "Starting validation..."
    /\ pc' = "start"
    /\ wlocal' = NoLocals
    /\ validated' = <<>>
    /\ cancel_hist' = "none"
    /\ UNCHANGED <<validation_errors, file_path_var, sheets_url_var, export_enabled,
                   progress_window, pending>>

\* variant: the selected file is read whenever a path is in the entry
start_validation_reread ==
    /\ ~Grabbed
    /\ IF is_validating
       THEN UNCHANGED appvars
       ELSE IF Strip(file_path_var) # ""
       THEN \/ LoadFailed
            \/ \E data \in Files : StartWorker(data) /\ loaded' = data
       ELSE IF df = None
       THEN UNCHANGED appvars
       ELSE StartWorker(df) /\ UNCHANGED loaded
    /\ UNCHANGED <<call, ret>>

\* variant: the handler does not look at is_validating
start_validation_noguard ==
    /\ ~Grabbed
    /\ IF df = None
       THEN IF Strip(file_path_var) = ""
            THEN UNCHANGED appvars
            ELSE \/ LoadFailed
                 \/ \E data \in Files : StartWorker(data) /\ loaded' = data
       ELSE StartWorker(df) /\ UNCHANGED loaded
    /\ UNCHANGED <<call, ret>>

\* the handler as it runs whenever it is invoked; the button that invokes it
\* is disabled during a run, and then the first branch answers
start_validation ==
    /\ ~Grabbed
    /\ IF is_validating
       THEN UNCHANGED appvars
       ELSE IF df = None
       THEN IF Strip(file_path_var) = ""
            THEN UNCHANGED appvars
            ELSE \/ LoadFailed
                 \/ \E data \in Files : StartWorker(data) /\ loaded' = data
       ELSE StartWorker(df) /\ UNCHANGED loaded
    /\ UNCHANGED <<call, ret>>

\* run_validation, line 413: len(self.df)
run_validation_len ==
    /\ pc = "start"
    /\ IF df = None
       THEN pc' = "close" /\ wlocal' = [wlocal EXCEPT !.exc = "TypeError"]
       ELSE pc' = "window" /\ UNCHANGED wlocal
    /\ UNCHANGED <<df, validation_errors, is_validating, file_path_var, sheets_url_var,
                   status_var, start_enabled, export_enabled, progress_window, pending,
                   loaded, validated, cancel_hist, call, ret>>

\* run_validation, line 413: ProgressWindow.__init__ (the window grabs input)
run_validation_window ==
    /\ pc = "window"
    /\ progress_window' = [created |-> TRUE, exists |-> TRUE, cancelled |-> FALSE]
    /\ pc' = "setup"
    /\ UNCHANGED <<df, validation_errors, is_validating, file_path_var, sheets_url_var,
                   status_var, start_enabled, export_enabled, wlocal, pending, loaded,
                   validated, cancel_hist, call, ret>>

\* self.df['Course Id'].dropna().tolist()
CourseIds(d) ==
    IF HasCol(d, "Course Id")
    THEN SelectSeq([i \in 1..Len(d.rows) |-> d.rows[i]["Course Id"]], LAMBDA v : ~IsNa(v))
    ELSE <<>>

\* run_validation, lines 415-424: the uniqueness context, the reset of the
\* error list, and the row iterator
run_validation_setup ==
    /\ pc = "setup"
    /\ IF df = None
       THEN /\ pc' = "close"
            /\ wlocal' = [wlocal EXCEPT !.exc = "AttributeError"]
            /\ UNCHANGED validation_errors
       ELSE /\ pc' = "check"
            /\ wlocal' = [all_course_ids |-> CourseIds(df), iter |-> df,
                          index |-> 1, exc |-> ""]
            /\ validation_errors' = <<>>
    /\ UNCHANGED <<df, is_validating, file_path_var, sheets_url_var, status_var,
                   start_enabled, export_enabled, progress_window, pending, loaded,
                   validated, cancel_hist, call, ret>>

\* variant: the loop never looks at the cancelled flag
run_validation_check_nocancel ==
    /\ pc = "check"
    /\ IF wlocal.index > Len(wlocal.iter.rows)
       THEN pc' = "close"
       ELSE pc' = "row"
    /\ UNCHANGED <<df, validation_errors, is_validating, file_path_var, sheets_url_var,
                   status_var, start_enabled, export_enabled, progress_window, wlocal,
                   pending, loaded, validated, cancel_hist, call, ret>>

\* run_validation, lines 424-427: next row or end of the loop, and the
\* check of the cancelled flag
run_validation_check ==
    /\ pc = "check"
    /\ IF wlocal.index > Len(wlocal.iter.rows)
       THEN pc' = "close" /\ UNCHANGED cancel_hist
       ELSE IF progress_window.cancelled
       THEN pc' = "close" /\ cancel_hist' = "stopped"
       ELSE pc' = "row" /\ UNCHANGED cancel_hist
    /\ UNCHANGED <<df, validation_errors, is_validating, file_path_var, sheets_url_var,
                   status_var, start_enabled, export_enabled, progress_window, wlocal,
                   pending, loaded, validated, call, ret>>

\* run_validation, lines 429-441: validate one row and keep its errors
ValidateRow(probes) ==
    LET result == validate_all_fields(wlocal.iter.rows[wlocal.index], wlocal.index - 1,
                                      wlocal.all_course_ids, probes)
    IN  IF result.raised
        THEN /\ pc' = "close"
             /\ wlocal' = [wlocal EXCEPT !.exc = "IndexError"]
             /\ UNCHANGED <<validation_errors, validated>>
        ELSE /\ pc' = "check"
             /\ wlocal' = [wlocal EXCEPT !.index = wlocal.index + 1]
             /\ validation_errors' = validation_errors \o result.errors
             /\ validated' = Append(validated, wlocal.index)

run_validation_row ==
    /\ pc = "row"
    /\ \E outcome \in RunProbes : ValidateRow(<<outcome>>)
    /\ UNCHANGED <<df, is_validating, file_path_var, sheets_url_var, status_var,
                   start_enabled, export_enabled, progress_window, pending, loaded,
                   cancel_hist, call, ret>>

\* variant: the except branch closes the window and posts nothing
run_validation_close_nopost ==
    /\ pc = "close"
    /\ IF progress_window.created
       THEN progress_window' = [progress_window EXCEPT !.cancelled = TRUE,
                                                       !.exists = FALSE]
       ELSE UNCHANGED progress_window
    /\ pending' = IF wlocal.exc = "" THEN "complete" ELSE "none"
    /\ pc' = "none"
    /\ wlocal' = NoLocals
    /\ UNCHANGED <<df, validation_errors, is_validating, file_path_var, sheets_url_var,
                   status_var, start_enabled, export_enabled, loaded, validated,
                   cancel_hist, call, ret>>

\* run_validation, lines 443-448 and 450-453: ProgressWindow.close, then
\* root.after(0, ...); the thread ends
run_validation_close ==
    /\ pc = "close"
    /\ IF progress_window.created
       THEN progress_window' = [progress_window EXCEPT !.cancelled = TRUE,
                                                       !.exists = FALSE]
       ELSE UNCHANGED progress_window
    /\ pending' = IF wlocal.exc = "" THEN "complete" ELSE "error"
    /\ pc' = "none"
    /\ wlocal' = NoLocals
    /\ UNCHANGED <<df, validation_errors, is_validating, file_path_var, sheets_url_var,
                   status_var, start_enabled, export_enabled, loaded, validated,
                   cancel_hist, call, ret>>

\* ProgressWindow.cancel_validation: the Cancel button, disabled once pressed
cancel_validation ==
    /\ progress_window.exists /\ ~progress_window.cancelled
    /\ progress_window' = [progress_window EXCEPT !.cancelled = TRUE]
    /\ cancel_hist' = "pressed"
    /\ UNCHANGED <<df, validation_errors, is_validating, file_path_var, sheets_url_var,
                   status_var, start_enabled, export_enabled, pc, wlocal, pending,
                   loaded, validated, call, ret>>

\* display_results raises TypeError on len(self.df) when no dataset is held;
\* the rest of validation_complete is then skipped
validation_complete ==
    /\ pending = "complete"
    /\ pending' = "none"
    /\ is_validating' = FALSE
    /\ start_enabled' = TRUE
    /\ IF df = None
       THEN UNCHANGED <<export_enabled, status_var>>
       ELSE /\ export_enabled' = TRUE
            /\ status_var' = "Validation complete. Found "
                              \o IntToStr(Len(validation_errors)) \o " errors."
    /\ UNCHANGED <<df, validation_errors, file_path_var, sheets_url_var,
                   progress_window, pc, wlocal, loaded, validated, cancel_hist, call, ret>>

validation_error ==
    /\ pending = "error"
    /\ pending' = "none"
    /\ is_validating' = FALSE
    /\ start_enabled' = TRUE
    /\ status_var' = "Validation failed"
    /\ UNCHANGED <<df, validation_errors, file_path_var, sheets_url_var, export_enabled,
                   progress_window, pc, wlocal, loaded, validated, cancel_hist, call, ret>>

export_results ==
    /\ ~Grabbed /\ export_enabled
    /\ IF df = None
       THEN UNCHANGED status_var
       ELSE \E output_path \in {"", "out.xlsx"}, written \in BOOLEAN :
               IF output_path = "" THEN UNCHANGED status_var
               ELSE IF written THEN status_var' = "Results exported to " \o output_path
               ELSE status_var' = "Export failed"
    /\ UNCHANGED <<df, validation_errors, is_validating, file_path_var, sheets_url_var,
                   start_enabled, export_enabled, progress_window, pc, wlocal, pending,
                   loaded, validated, cancel_hist, call, ret>>

clear_all ==
    /\ ~Grabbed
    /\ df' = None
    /\ validation_errors' = <<>>
    /\ file_path_var' = ""
    /\ sheets_url_var' = ""
    /\ export_enabled' = FALSE
    /\ status_var' = "Ready to validate data"
    /\ loaded' = None
    /\ UNCHANGED <<is_validating, start_enabled, progress_window, pc, wlocal, pending,
                   validated, cancel_hist, call, ret>>

Next ==
    \/ browse_file
    \/ load_google_sheets
    \/ start_validation
    \/ run_validation_len
    \/ run_validation_window
    \/ run_validation_setup
    \/ run_validation_check
    \/ run_validation_row
    \/ run_validation_close
    \/ cancel_validation
    \/ validation_complete
    \/ validation_error
    \/ export_results
    \/ clear_all

Spec == Init /\ [][Next]_vars

\* The worker is a running thread and the callbacks of root.after(0, ...)
\* are run by the event loop: a step of either that stays possible is taken.
WorkerControl ==
    \/ run_validation_len
    \/ run_validation_window
    \/ run_validation_setup
    \/ run_validation_check
    \/ run_validation_close

\* weak fairness of run_validation_row, which is possible exactly when the
\* worker stands at "row" and always leaves that position
RowFairness == []<>(pc # "row") \/ []<><<run_validation_row>>_vars

Callback == validation_complete \/ validation_error

SpecFair == Spec /\ WF_vars(WorkerControl) /\ RowFairness /\ WF_vars(Callback)

(***************************************************************************)
(* The validators as functions: a call is drawn from bounded sets of       *)
(* arguments and then made.                                                *)
(***************************************************************************)
ValueSamples ==
    {NaN, Str(""), Str(" "), Str(" \t "), Num(108), Str("108"), Str(" 42 "),
     Str("ABC"), Str("Arts"), Str("arts And crafts"), Str("Film And TV"),
     Str("Engineering with Technology"),
     Str("2024-09-01"), Str("2024/09/01"), Str("2024-09-01, 2025-13-01"),
     Str("https://e.x/c"), Str("e.x"), Str("https://e.x/a, nope"),
     Str("1,2"), Str("1,1"), Str("1,2,3"),
     Str("Yes"), Str("yes"), Str("Open"), Str("Open, Pending"), Str("Open,Closed"),
     Str("Full time"), Str("Full Time"),
     Str(" Arts"), Str("The Arts"), Str("Art Of War And Peace"), Str("Arts AND crafts"),
     Str("2024-9-1"), Str("2024-02-30"), Str("2024-09-01,2025-01-15"),
     Str("https://e.x/a,https://e.x/b"),
     Str(" Yes "), Str("No"), Str("Open, Closed"), Str("Closed"), Str("Part time")}

DateSamples == {NaN, Str(""), Str(" "), Str("2024-09-01"), Str("2024-09-01,2025-01-01")}

ProbeSamples == {<<"200", "200">>, <<"404", "503">>, <<"Timeout", "403">>,
                 <<"ConnectionError", "RequestException">>,
                 <<"RequestException", "RequestException 403">>, <<"401", "429">>,
                 <<"200", "410">>, <<"500", "502">>, <<"504", "200">>,
                 <<"403", "200">>}

\* a call validate_<column>(value [, start_dates | all_course_ids])
ValidatorCalls ==
    {[fn |-> "validate", column |-> c, value |-> v, start_dates |-> NaN,
      all_course_ids |-> <<>>, probes |-> <<"200", "200">>]
        : c \in Range(ValidatedColumns)
               \ {"Course Id", "Course Level URL", "Course Intake Ids"},
          v \in ValueSamples}
    \cup {[fn |-> "validate", column |-> "Course Id", value |-> v, start_dates |-> NaN,
           all_course_ids |-> ids, probes |-> <<"200", "200">>]
             : v \in ValueSamples, ids \in {<<Num(108)>>, <<Str("ABC"), Str("ABC")>>,
                                            <<Num(108), Str("108"), Num(108)>>}}
    \cup {[fn |-> "validate", column |-> "Course Level URL", value |-> v,
           start_dates |-> NaN, all_course_ids |-> <<>>, probes |-> p]
             : v \in ValueSamples, p \in ProbeSamples}
    \cup {[fn |-> "validate", column |-> "Course Intake Ids", value |-> v,
           start_dates |-> d, all_course_ids |-> <<>>, probes |-> <<"200", "200">>]
             : v \in ValueSamples, d \in DateSamples}

\* the validator a call names, applied to its arguments
ApplyValidator(c) ==
    FieldResult(c.column,
                (c.column :> c.value) @@ ("Course start date" :> c.start_dates),
                c.all_course_ids, c.probes)

\* rows with every validated column, each cell right or wrong in one or
\* several ways, and rows that lack columns
FullRows ==
    {[h \in Range(ValidatedColumns) |->
         CASE h = "Institution Id" -> a
           [] h = "Course Id" -> b
           [] h = "Course Name" -> c
           [] h = "L3 Tagging" -> d
           [] h = "Degree Type" -> Str("FDA")
           [] h = "Course Type" -> NaN
           [] h = "Course start date" -> e
           [] h = "Course Level URL" -> Str("https://e.x/c, e.x")
           [] h = "Course Intake Ids" -> f
           [] h = "Show" -> g
           [] h = "Course Status" -> Str("Pending, Gone")
           [] h = "Study Mode" -> Str("Full time")]
        : a \in {Num(108), Str("ABC")},
          b \in {Num(7), Str("AB"), Str("")},
          c \in {Str("Arts"), Str("arts And crafts"), Str(" ")},
          d \in {Str("x"), Str("")},
          e \in {Str("2024-09-01"), Str("bad,worse")},
          f \in {Str("1"), Str("1,1,2")},
          g \in {Str("Yes"), Str("Maybe")}}

RowSamples == FullRows \cup RowsA \cup RowsB \cup RowsC \cup RowsD

ValidateAllCalls ==
    {[fn |-> "validate_all_fields", row |-> r, row_index |-> i,
      all_course_ids |-> ids, probes |-> p]
        : r \in RowSamples, i \in {0, 4},
          ids \in {<<Num(7), Str("AB"), Str("")>>,
                   <<Num(7), Num(7), Str("AB"), Str("AB"), Str(""), Str("")>>},
          p \in {<<"200", "200">>, <<"404", "503">>}}

ValInit == AppInit /\ call \in ValidatorCalls \cup ValidateAllCalls /\ ret = NoRet

CallValidator ==
    /\ call.fn = "validate" /\ ~ret.done
    /\ ret' = [done |-> TRUE, result |-> ApplyValidator(call)]
    /\ UNCHANGED <<appvars, call>>

CallValidateAll ==
    /\ call.fn = "validate_all_fields" /\ ~ret.done
    /\ ret' = [done |-> TRUE,
               result |-> validate_all_fields(call.row, call.row_index,
                                              call.all_course_ids, call.probes)]
    /\ UNCHANGED <<appvars, call>>

ValNext == CallValidator \/ CallValidateAll

SpecVal == ValInit /\ [][ValNext]_vars

(***************************************************************************)
(* The functions of io_file.py, and validate_all_fields on rows that carry *)
(* unrecognised columns: a call is drawn from bounded sets and then made.  *)
(***************************************************************************)
\* headers: the canonical names, the keys of the variations table, the
\* headers of create_sample_data, fragments of keys, and unrelated headers
HeaderSamples ==
    Range(expected_columns) \cup {variations[i][1] : i \in 1..Len(variations)}
    \cup {"Instit", "Course Identifier", "course id", "Study Mode (FT/PT)",
          "Notes", "Fee", "My Course", "Previous School"}

NormalizeCalls ==
    {[fn |-> "normalize_column_names", columns |-> <<h>>] : h \in HeaderSamples}
    \cup {[fn |-> "normalize_column_names",
           columns |-> <<"Instituti", "Course I", "Course sCourse", "Notes">>]}

\* raw cells: null markers in several spellings, dates with and without
\* trailing digits, study modes, and values no cleaning rule touches
CellSamples ==
    {NaN, Str(""), Str(" "), Num(5), Str("NULL"), Str("NUL"), Str("null"), Str("nul"),
     Str("Null"), Str("nUL"), Str("NULL,NUL"), Str(" NULL"), Str("NULLS"),
     Str("2024-09-015720"), Str("2024/09/01"), Str(" 2024/09/01 "),
     Str("on 2024-09-01 or 2025-01-15"), Str("2024-9-1"), Str("2024-09-01,2025-01-15"),
     Str("Full Time"), Str("part-time"), Str(" Online "), Str("Arts")}

UrlCellSamples ==
    {NaN, Str("https://e.x/c"), Str("https://e.x/c,OpenYes"), Str(" https://e.x/c , Closed"),
     Str("https://e.x/c,No"), Str("https://e.x/c, Pen"), Str("https://e.x/cOpen, Ope No"),
     Str("https://e.x/a,https://e.x/b,Closed Open Yes No")}

CleanCalls ==
    {[fn |-> "clean_data", d |-> Df(<<c>>, <<(c :> v)>>)]
        : c \in {"Course start date", "Study Mode", "Notes"}, v \in CellSamples}
    \cup {[fn |-> "clean_data", d |-> Df(<<"Course Level URL">>, <<("Course Level URL" :> u)>>)]
             : u \in UrlCellSamples}
    \cup {[fn |-> "clean_data",
           d |-> Df(<<"Course Level URL", "Course Status", "Show">>,
                    <<("Course Level URL" :> u) @@ ("Course Status" :> a) @@ ("Show" :> b),
                      ("Course Level URL" :> Str("https://e.x/z"))
                          @@ ("Course Status" :> Str("Open")) @@ ("Show" :> NaN)>>)]
             : u \in UrlCellSamples, a \in {Str(""), Str("Closed")}, b \in {Str(""), Str("Yes")}}

\* rows as a source lists them: one or several intake ids, and start dates
\* and URLs given once or once per intake id
PipelineCalls ==
    {[fn |-> "clean_data",
      d |-> Df(<<"Course Intake Ids", "Course start date", "Course Level URL">>,
               <<("Course Intake Ids" :> a) @@ ("Course start date" :> b)
                     @@ ("Course Level URL" :> u)>>)]
        : a \in {Str("1"), Str("1,2"), Str("1, 2, 3"), Str("4,4")},
          b \in {Str("2024-09-01"), Str("2024-09-01,2025-01-15"),
                 Str("2024-09-01, 2025-01-15, 2025-05-01"), Str("2024-9-1,2025-1-5"),
                 Str("Sept,Jan"), Str(""), NaN},
          u \in {Str("https://e.x/c"), Str("https://e.x/a,https://e.x/b")}}

\* a row of validated columns that also carries columns under other headers
ExtraColumnCalls ==
    {[fn |-> "validate_all_fields",
      row |-> ("Course Id" :> a) @@ ("Show" :> Str("Maybe")) @@ (h :> v),
      row_index |-> 0, all_course_ids |-> <<Num(7), Num(7)>>, probes |-> <<"200", "200">>]
        : a \in {Num(7), Str("AB")},
          h \in {"Notes", "Course I", "course id", "Application Fees"},
          v \in {NaN, Str(""), Str("x"), Num(7)}}

\* the Error Records of a whole dataset, as the rows of a run yield them
RECURSIVE RunErrors(_, _, _)
RunErrors(d, i, probes) ==
    IF i > Len(d.rows) THEN <<>>
    ELSE validate_all_fields(d.rows[i], i - 1, CourseIds(d), probes).errors
         \o RunErrors(d, i + 1, probes)

\* rows whose cells are right or wrong independently of each other
ReportRows ==
    {("Course Id" :> a) @@ ("Course Name" :> b) @@ ("L3 Tagging" :> c)
        : a \in {Num(7), Str("AB")}, b \in {Str("Arts"), Str("arts")},
          c \in {Str("x"), Str("")}}

\* a dataset and the Error Records of its validation
WriteCalls ==
    {[fn |-> "write_excel_with_validation_results", d |-> d,
      validation_errors |-> RunErrors(d, 1, <<"200">>)]
        : d \in {Df(<<"Course Id", "Course Name", "L3 Tagging">>, rows)
                    : rows \in [1..1 -> ReportRows] \cup [1..2 -> ReportRows]}}

IoInit == AppInit /\ call \in NormalizeCalls \cup CleanCalls \cup ExtraColumnCalls
                                \cup WriteCalls \cup PipelineCalls
                  /\ ret = NoRet

CallNormalize ==
    /\ call.fn = "normalize_column_names" /\ ~ret.done
    /\ ret' = [done |-> TRUE, result |-> normalize_column_names(call.columns)]
    /\ UNCHANGED <<appvars, call>>

CallClean ==
    /\ call.fn = "clean_data" /\ ~ret.done
    /\ ret' = [done |-> TRUE, result |-> clean_data(call.d)]
    /\ UNCHANGED <<appvars, call>>

CallWrite ==
    /\ call.fn = "write_excel_with_validation_results" /\ ~ret.done
    /\ ret' = [done |-> TRUE,
               result |-> write_excel_with_validation_results(call.d,
                                                              call.validation_errors)]
    /\ UNCHANGED <<appvars, call>>

IoNext == CallNormalize \/ CallClean \/ CallValidateAll \/ CallWrite

SpecIo == IoInit /\ [][IoNext]_vars

(***************************************************************************)
(* A validator called twice with the same arguments.  The second call of   *)
(* validate_course_level_url probes its URLs again, and the answers of the *)
(* network are those of the moment of the call.                            *)
(***************************************************************************)
CallValidatorAgain ==
    /\ call.fn = "validate" /\ ret.done /\ "again" \notin DOMAIN ret
    /\ \E probes \in ProbeSamples :
          ret' = [done |-> TRUE, result |-> ret.result,
                  again |-> ApplyValidator([call EXCEPT !.probes = probes])]
    /\ UNCHANGED <<appvars, call>>

RepeatInit == AppInit /\ call \in ValidatorCalls /\ ret = NoRet

RepeatNext == CallValidator \/ CallValidatorAgain

SpecRepeat == RepeatInit /\ [][RepeatNext]_vars

(***************************************************************************)
(* Properties                                                              *)
(***************************************************************************)
\* the row loop of the current run has gone through every row
LoopDone ==
    /\ pc = "close" /\ wlocal.exc = "" /\ ~wlocal.iter.none
    /\ wlocal.index > Len(wlocal.iter.rows)

\* the held Error Records say row r has a duplicated Course Id
HasUniqueError(r) ==
    \E i \in 1..Len(validation_errors) :
        /\ validation_errors[i].row = r
        /\ validation_errors[i].column = "Course Id"
        /\ validation_errors[i].error_type = "Unique"

\* how often the Course Id of row r occurs in the Course Id column
Occurrences(d, r) ==
    Cardinality({i \in 1..Len(d.rows) : d.rows[i]["Course Id"] = d.rows[r]["Course Id"]})

\* a Course Id that is present and that float() accepts
IsNumericId(v) == ~IsNa(v) /\ ~IsEmptyStr(v) /\ PyFloatOk(PyStr(v))

\* C1: when the row loop of a run is reached, every header of the source has
\* been rewritten by normalize_column_names: the iterated dataset has the
\* normalised name of each source header among its columns.
C1_HeadersNormalizedBeforeRows ==
    pc \in {"check", "row"} =>
        \A h \in Range(loaded.cols) : NormalizeHeader(h) \in Range(wlocal.iter.cols)

\* C2 as stated: after a completed run, every row whose Course Id occurs
\* k > 1 times has a 'Unique' Error Record, and a row whose Course Id occurs
\* once has none.
C2_EveryDuplicateIsUnique ==
    (LoopDone /\ HasCol(wlocal.iter, "Course Id")) =>
        \A r \in 1..Len(wlocal.iter.rows) :
            /\ Occurrences(wlocal.iter, r) > 1 => HasUniqueError(r)
            /\ Occurrences(wlocal.iter, r) = 1 => ~HasUniqueError(r)

\* C2 amended: after a completed run, every row whose Course Id is a
\* non-blank value that float() accepts and that occurs k > 1 times has a
\* 'Unique' Error Record; a row whose Course Id occurs once has none; and the
\* uniqueness context the loop uses is the Course Id column of the whole
\* dataset (missing cells dropped), as set up before the first row.
C2_NumericDuplicateIsUnique ==
    /\ (pc \in {"check", "row"} \/ LoopDone) =>
           wlocal.all_course_ids = CourseIds(wlocal.iter)
    /\ (LoopDone /\ HasCol(wlocal.iter, "Course Id")) =>
           \A r \in 1..Len(wlocal.iter.rows) :
               /\ (Occurrences(wlocal.iter, r) > 1
                   /\ IsNumericId(wlocal.iter.rows[r]["Course Id"])) => HasUniqueError(r)
               /\ Occurrences(wlocal.iter, r) = 1 => ~HasUniqueError(r)

C2_Witness ==
    /\ LoopDone /\ HasCol(wlocal.iter, "Course Id")
    /\ \E r \in 1..Len(wlocal.iter.rows) :
          /\ Occurrences(wlocal.iter, r) > 1
          /\ IsNumericId(wlocal.iter.rows[r]["Course Id"])
          /\ HasUniqueError(r)

\* C3: every call of a field validator returns a verdict; none raises.
C3_ValidatorsTotal ==
    (ret.done /\ call.fn = "validate") => ~ret.result.raised

\* a value that is missing, empty or white space only
MissingOrBlank(v) == IsNa(v) \/ Strip(PyStr(v)) = ""

\* the message with which each validator reports a blank value
BlankMessage(column) ==
    CASE column = "Institution Id" -> "Institution Id cannot be blank"
      [] column = "Course Id" -> "Course Id cannot be blank"
      [] column = "Course Name" -> "Course Name cannot be blank"
      [] column = "L3 Tagging" -> "L3 Tagging must not be blank"
      [] column = "Degree Type" -> "Degree Type must not be blank"
      [] column = "Course Type" -> "Course Type must not be blank"
      [] column = "Course start date" -> "Course start date cannot be blank"
      [] column = "Course Level URL" -> "Course Level URL cannot be blank"
      [] column = "Course Intake Ids" ->
             "Course Intake IDs and Course start date cannot be blank"
      [] column = "Show" -> "Show field cannot be blank"
      [] column = "Course Status" -> "Course Status cannot be blank"
      [] column = "Study Mode" -> "Study Mode cannot be blank"

\* C4: a validator given a missing, empty or white-space-only value (for
\* Course Intake Ids: such an intake value or such a start date) answers
\* invalid with the blank message of its field.
C4_BlankGetsBlankMessage ==
    (/\ ret.done /\ call.fn = "validate"
     /\ \/ MissingOrBlank(call.value)
        \/ call.column = "Course Intake Ids" /\ MissingOrBlank(call.start_dates))
    => /\ ~ret.result.raised
       /\ ~ret.result.valid
       /\ ret.result.message = BlankMessage(call.column)

\* C5: the worker looks at the cancelled flag at each row boundary: with the
\* flag set it does not enter the next row, and from the moment the loop
\* stopped for it until the run has ended, no step of the worker or of the
\* completion callback adds or removes a validated row or an Error Record,
\* and the run ends through validation_complete.
C5_CancelStopsAtRowBoundary ==
    [][/\ (progress_window.cancelled /\ pc = "check") => pc' # "row"
       /\ (cancel_hist = "stopped" /\ is_validating /\ (pc' # pc \/ pending' # pending))
              => (validated' = validated /\ validation_errors' = validation_errors)
       /\ (cancel_hist = "stopped" /\ pc = "close" /\ pc' = "none")
              => pending' = "complete"]_vars

C5_Witness ==
    /\ cancel_hist = "stopped" /\ pending = "complete"
    /\ validated # <<>> /\ validation_errors # <<>>
    /\ ~df.none /\ Len(validated) < Len(df.rows)

\* C6: a run whose row loop was stopped by Cancel is not reported as
\* 'Validation complete'.
C6_CancelledRunMarked ==
    cancel_hist = "stopped" => ~StartsWith(status_var, "Validation complete")

\* C7: while the worker runs, a step that is not the worker's changes neither
\* the held dataset nor the held Error Record list.
C7_NoWriteDuringRun ==
    [][(pc # "none" /\ pc' = pc) =>
           (df' = df /\ validation_errors' = validation_errors)]_vars

\* C8: validate_all_fields returns at most one Error Record per column of
\* the row, each with the row's number; a Course Id that is not numeric and
\* also duplicated gets one record, of category 'Numeric'.
C8_OneRecordPerField ==
    (ret.done /\ call.fn = "validate_all_fields" /\ ~ret.result.raised) =>
        LET errors == ret.result.errors
            id_errors == {i \in 1..Len(errors) : errors[i].column = "Course Id"}
        IN  /\ \A i, j \in 1..Len(errors) :
                   errors[i].column = errors[j].column => i = j
            /\ \A i \in 1..Len(errors) : errors[i].row = call.row_index + 1
            /\ ("Course Id" \in DOMAIN call.row
                /\ ~MissingOrBlank(call.row["Course Id"])
                /\ ~PyFloatOk(PyStr(call.row["Course Id"]))
                /\ Count(call.all_course_ids, call.row["Course Id"]) > 1)
               => /\ Cardinality(id_errors) = 1
                  /\ \A i \in id_errors : errors[i].error_type = "Numeric"

C8_Witness ==
    /\ ret.done /\ call.fn = "validate_all_fields" /\ ~ret.result.raised
    /\ "Course Id" \in DOMAIN call.row
    /\ call.row["Course Id"] = Str("AB")
    /\ Count(call.all_course_ids, call.row["Course Id"]) > 1
    /\ "Course Name" \in DOMAIN call.row
    /\ call.row["Course Name"] = Str("arts And crafts")
    /\ Len(ret.result.errors) >= 8

\* C9: a run in which Cancel was not pressed validates every row of its
\* dataset once, in increasing order, before it ends.
C9_EveryRowValidated ==
    (pc = "close" /\ ~wlocal.iter.none /\ cancel_hist = "none") =>
        validated = [i \in 1..Len(wlocal.iter.rows) |-> i]

\* C10: after a failed load of the source file no dataset is held, no worker
\* has been started and is_validating is false.
C10_LoadFailureHoldsNothing ==
    status_var = "Error loading file" =>
        (df = None /\ ~is_validating /\ pc = "none" /\ pending = "none")

C10_Witness ==
    status_var = "Error loading file" /\ Strip(file_path_var) # "" /\ start_enabled

\* the keys of the variations table, and the entries a header matches when
\* containment counts in either direction
VariantKeys == {variations[i][1] : i \in 1..Len(variations)}
EitherWayHits(col) ==
    {i \in 1..Len(variations) :
        Contains(variations[i][1], col) \/ Contains(col, variations[i][1])}
Least(S) == CHOOSE i \in S : \A j \in S : i <= j

\* C11: normalize_column_names maps a canonical header to itself, a key of
\* the variations table to that key's own target, and any other header to
\* the target of the first entry whose key is contained in the header or
\* contains it.
C11_HeadersMapByVariant ==
    (ret.done /\ call.fn = "normalize_column_names") =>
        \A col \in Range(call.columns) :
            /\ col \in Range(expected_columns) => ret.result[col] = col
            /\ \A i \in 1..Len(variations) :
                   (col \notin Range(expected_columns) /\ col = variations[i][1])
                       => ret.result[col] = variations[i][2]
            /\ (col \notin Range(expected_columns) /\ col \notin VariantKeys
                /\ EitherWayHits(col) # {})
                   => ret.result[col] = variations[Least(EitherWayHits(col))][2]

\* the part of a row under the canonical headers
CanonicalPart(row) ==
    [h \in DOMAIN row \cap Range(expected_columns) |-> row[h]]

\* C12: a header that is no canonical name and matches no variant is mapped
\* to itself, and validate_all_fields reports only canonical columns of the
\* row: the records are those of the row without its other columns.
C12_UnknownHeaderPassesSilently ==
    /\ (ret.done /\ call.fn = "normalize_column_names") =>
           \A col \in Range(call.columns) :
               (col \notin Range(expected_columns) /\ EitherWayHits(col) = {})
                   => ret.result[col] = col
    /\ (ret.done /\ call.fn = "validate_all_fields") =>
           /\ \A i \in 1..Len(ret.result.errors) :
                  ret.result.errors[i].column
                      \in DOMAIN call.row \cap Range(expected_columns)
           /\ ret.result = validate_all_fields(CanonicalPart(call.row), call.row_index,
                                               call.all_course_ids, call.probes)

C12_Witness ==
    /\ ret.done /\ call.fn = "normalize_column_names"
    /\ call.columns = <<"Instituti", "Course I", "Course sCourse", "Notes">>
    /\ EitherWayHits("Notes") = {}
    /\ ret.result["Notes"] = "Notes"

\* a null marker in any letter case, or the compound of the two
NullMarker(v) == v.t = "str" /\ ToLower(v.s) \in {"null", "nul", "null,nul"}

\* the columns the other cleaning rules rewrite
RewrittenColumns == {"Course start date", "Study Mode", "Course Level URL",
                     "Course Status", "Show"}

\* C13: clean_data empties every cell that holds a null marker, and leaves
\* alone every other cell of the columns no other rule rewrites.
C13_NullMarkersErased ==
    (ret.done /\ call.fn = "clean_data") =>
        \A i \in 1..Len(call.d.rows) : \A h \in DOMAIN call.d.rows[i] :
            /\ NullMarker(call.d.rows[i][h]) => ret.result.rows[i][h] = Str("")
            /\ (~NullMarker(call.d.rows[i][h]) /\ h \notin RewrittenColumns)
                   => ret.result.rows[i][h] = call.d.rows[i][h]

\* the positions of s at which 4 digits '-' 2 digits '-' 2 digits begin
DateHits(s) ==
    {i \in 1..Len(s) :
        /\ i + 9 <= Len(s)
        /\ \A k \in {0, 1, 2, 3, 5, 6, 8, 9} : IsDigit(Ch(s, i + k))
        /\ Ch(s, i + 4) = "-" /\ Ch(s, i + 7) = "-"}

\* C14: cleaning a non-blank Course start date text yields its first
\* substring of the form dddd-dd-dd when there is one; when there is none
\* the text is left as it was (surrounding white space aside) and
\* validate_course_start_date then reports it as a malformed date.
C14_DateCleanedOrReportedMalformed ==
    (ret.done /\ call.fn = "clean_data" /\ call.d.cols = <<"Course start date">>) =>
        \A i \in 1..Len(call.d.rows) :
            LET raw == call.d.rows[i]["Course start date"]
                out == ret.result.rows[i]["Course start date"]
                verdict == validate_course_start_date(out)
            IN  (raw.t = "str" /\ ~NullMarker(raw) /\ Strip(raw.s) # "") =>
                    IF DateHits(raw.s) # {}
                    THEN out = Str(SubSeq(raw.s, Least(DateHits(raw.s)),
                                          Least(DateHits(raw.s)) + 9))
                    ELSE /\ out = Str(Strip(raw.s))
                         /\ ~verdict.raised /\ ~verdict.valid
                         /\ StartsWith(verdict.message, "Invalid date format")

\* the text of a combined cell before and after its first comma
BeforeComma(text) == Strip(SubSeq(text, 1, Find(text, ",") - 1))
AfterComma(text) == SubSeq(text, Find(text, ",") + 1, Len(text))

\* the value a row holds under h, the empty text when it has no such column
Prior(row, h) == IF h \in DOMAIN row THEN row[h] ELSE Str("")

\* what cleaning leaves in a derived column: the token found in the tail,
\* otherwise the value given as rest
Derived(tail, first, second, rest) ==
    IF Contains(first, tail) THEN Str(first)
    ELSE IF Contains(second, tail) THEN Str(second)
    ELSE rest

\* the rows of a clean_data call whose Course Level URL is a text
UrlRows ==
    IF ret.done /\ call.fn = "clean_data" /\ HasCol(call.d, "Course Level URL")
    THEN {i \in 1..Len(call.d.rows) : call.d.rows[i]["Course Level URL"].t = "str"}
    ELSE {}

\* the columns the split of the combined cell writes
SplitColumns == {"Course Level URL", "Course Status", "Show"}

\* C15 as stated: a combined cell is split at its first comma, the derived
\* columns take the token found in the tail and are empty when the tail has
\* none; a row without a comma keeps its cells in these columns.
C15_TailWithoutTokenEmpties ==
    \A i \in UrlRows :
        LET row == call.d.rows[i]
            out == ret.result.rows[i]
            text == row["Course Level URL"].s
        IN  IF Contains(",", text)
            THEN /\ out["Course Level URL"] = Str(BeforeComma(text))
                 /\ out["Course Status"] = Derived(AfterComma(text), "Open", "Closed", Str(""))
                 /\ out["Show"] = Derived(AfterComma(text), "Yes", "No", Str(""))
            ELSE \A h \in DOMAIN row \cap SplitColumns : out[h] = row[h]

\* C15 amended: as above, but a derived column for which the tail has no
\* token keeps the value the row had (empty when cleaning created the
\* column).
C15_TailWithoutTokenKeeps ==
    \A i \in UrlRows :
        LET row == call.d.rows[i]
            out == ret.result.rows[i]
            text == row["Course Level URL"].s
        IN  IF Contains(",", text)
            THEN /\ out["Course Level URL"] = Str(BeforeComma(text))
                 /\ out["Course Status"] = Derived(AfterComma(text), "Open", "Closed",
                                                   Prior(row, "Course Status"))
                 /\ out["Show"] = Derived(AfterComma(text), "Yes", "No", Prior(row, "Show"))
            ELSE /\ \A h \in DOMAIN row \cap SplitColumns : out[h] = row[h]
                 /\ out["Course Status"] = Prior(row, "Course Status")
                 /\ out["Show"] = Prior(row, "Show")

C15_Witness ==
    /\ 1 \in UrlRows
    /\ call.d.rows[1]["Course Level URL"] = Str("https://e.x/c,No")
    /\ Prior(call.d.rows[1], "Course Status") = Str("Closed")
    /\ ret.result.rows[1]["Course Status"] = Str("Closed")
    /\ ret.result.rows[1]["Show"] = Str("No")
    /\ ret.result.rows[1]["Course Level URL"] = Str("https://e.x/c")

\* a finished call of the validator of one column
Validated(column) == ret.done /\ call.fn = "validate" /\ call.column = column

\* the words after the first that are capitalised conjunctions
Offenders(name) ==
    {i \in 2..Len(Words(name)) :
        /\ ToLower(Words(name)[i]) \in conjunctions
        /\ IsUpper(Ch(Words(name)[i], 1))}

\* the verdict the rule of Course Name gives a text
NameRuleHolds(name, result) ==
    /\ ~result.raised
    /\ result.valid <=> (IsUpper(Ch(name, 1)) /\ Offenders(name) = {})
    /\ (IsUpper(Ch(name, 1)) /\ Offenders(name) # {}) =>
           result.message = "Conjunction \"" \o Words(name)[Least(Offenders(name))]
                            \o "\" should be lowercase"

\* C16 as stated: a non-blank name is valid iff its first character is
\* upper case and no later word is a capitalised conjunction, and the message
\* names the first such word.
C16_NameRuleOnRawText ==
    (Validated("Course Name") /\ ~MissingOrBlank(call.value)) =>
        NameRuleHolds(PyStr(call.value), ret.result)

\* C16 amended: the same, of the name with its surrounding white space
\* removed.
C16_NameRuleOnTrimmedText ==
    (Validated("Course Name") /\ ~MissingOrBlank(call.value)) =>
        NameRuleHolds(Strip(PyStr(call.value)), ret.result)

C16_Witness ==
    /\ Validated("Course Name") /\ call.value = Str("Art Of War And Peace")
    /\ ~ret.result.valid
    /\ ret.result.message = "Conjunction \"Of\" should be lowercase"

\* dddd-dd-dd that names a day of the calendar
StrictDate(s) ==
    /\ Len(s) = 10 /\ DateHits(s) = {1}
    /\ LET y == StrToInt(SubSeq(s, 1, 4))
           m == StrToInt(SubSeq(s, 6, 7))
           d == StrToInt(SubSeq(s, 9, 10))
       IN  y >= 1 /\ m \in 1..12 /\ d \in 1..DaysInMonth(y, m)

\* the comma-separated components of a text, each trimmed
Components(text) == StripAll(Split(Strip(text), ","))

\* C17: a non-blank start date is valid iff each of its comma-separated
\* components is a strict YYYY-MM-DD calendar date, and the message of an
\* invalid one names the first component that is not.
C17_OnlyStrictDatesAccepted ==
    (Validated("Course start date") /\ ~MissingOrBlank(call.value)) =>
        LET parts == Components(PyStr(call.value))
            bad == {i \in 1..Len(parts) : ~StrictDate(parts[i])}
        IN  /\ ~ret.result.raised
            /\ ret.result.valid <=> bad = {}
            /\ bad # {} => ret.result.message =
                   "Invalid date format: " \o parts[Least(bad)] \o ". Must be YYYY-MM-DD"

\* a URL without a scheme or without a host
Malformed(url) == UrlParseRaises(url) \/ UrlScheme(url) = "" \/ UrlNetloc(url) = ""

BrokenStatuses == {"404", "410", "500", "502", "503", "504"}

\* what the message says of one failing URL
UrlErrorText(url, outcome) ==
    IF Malformed(url) THEN "Invalid URL format: " \o url
    ELSE IF outcome \in BrokenStatuses
    THEN "URL returns " \o StatusText(outcome) \o ": " \o url
    ELSE IF outcome = "Timeout" THEN "URL timeout (server not responding): " \o url
    ELSE IF outcome = "ConnectionError"
    THEN "URL connection error (server unreachable): " \o url
    ELSE "URL not accessible: " \o url

\* the verdict of the URL rule when the probe outcomes in failing count as
\* failures: invalid iff some URL of the value is malformed or its probe
\* fails, the message being the errors of the failing URLs in order
UrlRuleHolds(failing) ==
    LET parts == StripAll(Split(PyStr(call.value), ","))
        Fails(i) == parts[i] # "" /\ (Malformed(parts[i]) \/ call.probes[i] \in failing)
        failed == SelectSeq([i \in 1..Len(parts) |-> i], Fails)
    IN  /\ ~ret.result.raised
        /\ ~ret.result.valid <=> failed # <<>>
        /\ failed # <<>> =>
               ret.result.message =
                   Join([k \in 1..Len(failed) |->
                            UrlErrorText(parts[failed[k]], call.probes[failed[k]])], "; ")

\* C18 as stated: the failing probes are the statuses 404, 410, 500, 502,
\* 503, 504, a timeout and a failure to connect.
C18_OnlyListedProbesFail ==
    (Validated("Course Level URL") /\ ~MissingOrBlank(call.value)) =>
        UrlRuleHolds(BrokenStatuses \cup {"Timeout", "ConnectionError"})

\* C18 amended: a probe that ends in another request error whose text
\* mentions neither 403 nor 401 fails as well.
C18_OtherRequestErrorsFailToo ==
    (Validated("Course Level URL") /\ ~MissingOrBlank(call.value)) =>
        UrlRuleHolds(BrokenStatuses \cup {"Timeout", "ConnectionError", "RequestException"})

C18_Witness ==
    /\ Validated("Course Level URL")
    /\ call.value = Str("https://e.x/a,https://e.x/b")
    /\ call.probes = <<"RequestException", "RequestException 403">>
    /\ ~ret.result.valid
    /\ ret.result.message = "URL not accessible: https://e.x/a"

\* the non-empty comma-separated components of a text, each trimmed
NonEmptyComponents(text) == SelectSeq(StripAll(Split(text, ",")), LAMBDA c : c # "")

\* C19: a pair (intake ids, start dates) is valid iff neither is blank, both
\* have the same number of comma-separated components and no intake
\* component is repeated; '1,2,3' with one date is answered with the counts
\* 3 and 1.
C19_IntakePairRule ==
    Validated("Course Intake Ids") =>
        LET ids == NonEmptyComponents(PyStr(call.value))
            dates == NonEmptyComponents(PyStr(call.start_dates))
        IN  /\ ~ret.result.raised
            /\ ret.result.valid <=>
                   /\ ~MissingOrBlank(call.value) /\ ~MissingOrBlank(call.start_dates)
                   /\ Len(ids) = Len(dates)
                   /\ Cardinality(Range(ids)) = Len(ids)
            /\ (call.value = Str("1,2,3") /\ call.start_dates = Str("2024-09-01")) =>
                   ret.result.message = "Intake IDs count (3) must match start dates count (1)"

\* the verdict of the three allowed-value rules on a text and its components
AllowedRuleHolds(text, parts) ==
    /\ ~ret.result.raised
    /\ call.column = "Show" => (ret.result.valid <=> text \in {"Yes", "No"})
    /\ call.column = "Study Mode" =>
           (ret.result.valid <=> text \in {"Full time", "Part time"})
    /\ call.column = "Course Status" =>
           (ret.result.valid <=> \A i \in 1..Len(parts) : parts[i] \in {"Open", "Closed"})

AllowedValueCall ==
    /\ ret.done /\ call.fn = "validate"
    /\ call.column \in {"Show", "Study Mode", "Course Status"}
    /\ ~MissingOrBlank(call.value)

\* C20 as stated: Show and Study Mode are valid iff the value equals an
\* allowed value exactly, Course Status iff each comma-separated component
\* is 'Open' or 'Closed'.
C20_AllowedValuesExact ==
    AllowedValueCall =>
        AllowedRuleHolds(PyStr(call.value), Split(PyStr(call.value), ","))

\* C20 amended: the same of the value, and of each component, with its
\* surrounding white space removed.
C20_AllowedValuesTrimmed ==
    AllowedValueCall =>
        AllowedRuleHolds(Strip(PyStr(call.value)), Components(PyStr(call.value)))

C20_Witness ==
    /\ Validated("Course Status") /\ call.value = Str("Open, Closed")
    /\ ret.result.valid

\* C21: a validator called twice with the same value (and, for Course Id,
\* the same uniqueness context) gives the same verdict and message both
\* times, and the calls change nothing of the application.
C21_SameValueSameVerdict ==
    /\ (ret.done /\ call.fn = "validate" /\ "again" \in DOMAIN ret) =>
           ret.again = ret.result
    /\ AppInit

\* the held Error Records, each from a row the latest run validated
FromLatestRun ==
    \A i \in 1..Len(validation_errors) : validation_errors[i].row \in Range(validated)

\* C22: whenever no worker is running, every held Error Record comes from a
\* row validated by the most recent run (the records of earlier runs are
\* gone), and a step changes the held list only by emptying it or by
\* appending to it: a record once appended is never modified.
C22_OnlyLatestRunRecords ==
    /\ [](pc = "none" => FromLatestRun)
    /\ [][\/ validation_errors' = <<>>
          \/ /\ Len(validation_errors') >= Len(validation_errors)
             /\ SubSeq(validation_errors', 1, Len(validation_errors)) = validation_errors]_vars

\* the records of a list for one row, and for one cell of it
RecordsOfRow(errors, r) == {i \in 1..Len(errors) : errors[i].row = r}
RecordsOfCell(errors, r, column) ==
    {i \in RecordsOfRow(errors, r) : errors[i].column = column}

\* C23: in the 'Validated Data' sheet the cell of data row r under column c
\* has an error colour iff there is an Error Record of row r and column c,
\* the colour being that of the record's category, and the error count of
\* row r is the number of Error Records of row r.
C23_CellColouredIffItsRecord ==
    (ret.done /\ call.fn = "write_excel_with_validation_results") =>
        \A r \in 1..Len(call.d.rows) :
            /\ \A c \in 1..Len(call.d.cols) :
                   LET own == RecordsOfCell(call.validation_errors, r, call.d.cols[c])
                       fill == ret.result.fill[r + 1][c]
                   IN  /\ fill # "" <=> own # {}
                       /\ own # {} =>
                              \E i \in own :
                                  fill = error_colors[call.validation_errors[i].error_type]
            /\ ret.result.error_count[r + 1]
                   = Cardinality(RecordsOfRow(call.validation_errors, r))

\* the fixed taxonomy of error categories
Taxonomy == {"Numeric", "Unique", "Capitalization", "Blank", "Date", "URL", "Count",
             "Status"}

\* the category the rule table gives each column but Course Id
RuleCategory(column) ==
    CASE column = "Institution Id" -> "Numeric"
      [] column = "Course Name" -> "Capitalization"
      [] column \in {"L3 Tagging", "Degree Type", "Course Type"} -> "Blank"
      [] column = "Course start date" -> "Date"
      [] column = "Course Level URL" -> "URL"
      [] column = "Course Intake Ids" -> "Count"
      [] column \in {"Show", "Course Status", "Study Mode"} -> "Status"
      [] OTHER -> "none"

\* the Course Id of the row fails the duplicate check: it is present,
\* numeric, and occurs more than once in the uniqueness context
FailsDuplicateCheck(row, all_course_ids) ==
    /\ IsNumericId(row["Course Id"])
    /\ Count(all_course_ids, row["Course Id"]) > 1

\* C24: every Error Record of validate_all_fields has the row's index plus
\* one, a canonical column present in the row, and a category of the
\* taxonomy: the one the rule table gives its column, and for Course Id
\* 'Unique' exactly when the duplicate check failed, 'Numeric' otherwise.
C24_RecordsCarryRuleCategory ==
    (ret.done /\ call.fn = "validate_all_fields" /\ ~ret.result.raised) =>
        \A i \in 1..Len(ret.result.errors) :
            LET e == ret.result.errors[i] IN
            /\ e.row = call.row_index + 1
            /\ e.column \in DOMAIN call.row \cap Range(expected_columns)
            /\ e.error_type \in Taxonomy
            /\ e.error_type =
                   IF e.column # "Course Id" THEN RuleCategory(e.column)
                   ELSE IF FailsDuplicateCheck(call.row, call.all_course_ids)
                        THEN "Unique" ELSE "Numeric"

C24_Witness ==
    /\ ret.done /\ call.fn = "validate_all_fields" /\ ~ret.result.raised
    /\ call.row_index = 4
    /\ "Course Id" \in DOMAIN call.row
    /\ FailsDuplicateCheck(call.row, call.all_course_ids)
    /\ \E i \in 1..Len(ret.result.errors) :
           /\ ret.result.errors[i].column = "Course Id"
           /\ ret.result.errors[i].error_type = "Unique"
           /\ ret.result.errors[i].row = 5
    /\ \E i \in 1..Len(ret.result.errors) :
           /\ ret.result.errors[i].column = "Course Intake Ids"
           /\ ret.result.errors[i].error_type = "Count"

C28_CleanTwiceIsCleanOnce ==
    /\ []((ret.done /\ call.fn = "clean_data") => clean_data(ret.result) = ret.result)
    /\ [][call' = call]_vars

\* an Error Record that names a cell of the dataset and carries its value
RecordOf(d, e) ==
    /\ e.row \in 1..Len(d.rows)
    /\ e.column \in DOMAIN d.rows[e.row]
    /\ e.value = PyStr(d.rows[e.row][e.column])

\* C29: whenever export_results can write a report (the export button is
\* enabled, no run is under way and a dataset is held), every held Error
\* Record refers to a row of the held dataset and carries the value that
\* dataset has in the record's cell.
C29_ExportedRecordsMatchDataset ==
    (export_enabled /\ ~is_validating /\ df # None) =>
        \A i \in 1..Len(validation_errors) : RecordOf(df, validation_errors[i])

\* the rows of a clean_data call that list intake ids and start dates
PipelineRows ==
    IF /\ ret.done /\ call.fn = "clean_data"
       /\ HasCol(call.d, "Course Intake Ids") /\ HasCol(call.d, "Course start date")
       /\ HasCol(call.d, "Course Level URL")
    THEN 1..Len(call.d.rows)
    ELSE {}

\* the cleaned row i gets a 'Count' Error Record when it is validated
HasCountRecord(i) ==
    LET errors == validate_all_fields(ret.result.rows[i], i - 1, <<>>,
                                      <<"200", "200">>).errors
    IN  \E k \in 1..Len(errors) :
            errors[k].column = "Course Intake Ids" /\ errors[k].error_type = "Count"

\* the intake ids of row i as given, and the text of a cell
IntakeIds(i) == NonEmptyComponents(PyStr(call.d.rows[i]["Course Intake Ids"]))
CellText(i, h) == PyStr(call.d.rows[i][h])

\* a text that lists several dates, each one the validator accepts
ListsDates(text) ==
    /\ Contains(",", text)
    /\ \A k \in 1..Len(Components(text)) : StrptimeOk(Components(text)[k])

\* C30 as stated: a start date cell that lists several dates is cut to its
\* first one, a URL cell to the text before its first comma, and every row
\* with two or more intake ids then gets a 'Count' Error Record.
C30_ManyIntakesAlwaysCount ==
    \A i \in PipelineRows :
        /\ ListsDates(CellText(i, "Course start date")) =>
               ret.result.rows[i]["Course start date"]
                   = Str(Components(CellText(i, "Course start date"))[1])
        /\ Contains(",", CellText(i, "Course Level URL")) =>
               ret.result.rows[i]["Course Level URL"]
                   = Str(BeforeComma(CellText(i, "Course Level URL")))
        /\ Len(IntakeIds(i)) >= 2 => HasCountRecord(i)

\* C30 amended: the start date cell is cut to its first dddd-dd-dd text when
\* it has one and is otherwise kept (trimmed), commas included; a row with
\* two or more intake ids gets a 'Count' Error Record unless its start date
\* cell has no dddd-dd-dd text and lists as many entries as there are intake
\* ids, all different.
C30_ManyIntakesCountUnlessKept ==
    \A i \in PipelineRows :
        LET text == CellText(i, "Course start date") IN
        /\ ret.result.rows[i]["Course start date"] =
               IF DateHits(text) # {}
               THEN Str(SubSeq(text, Least(DateHits(text)), Least(DateHits(text)) + 9))
               ELSE Str(Strip(text))
        /\ Contains(",", CellText(i, "Course Level URL")) =>
               ret.result.rows[i]["Course Level URL"]
                   = Str(BeforeComma(CellText(i, "Course Level URL")))
        /\ Len(IntakeIds(i)) >= 2 =>
               (HasCountRecord(i) <=>
                    ~(/\ DateHits(text) = {}
                      /\ Len(NonEmptyComponents(text)) = Len(IntakeIds(i))
                      /\ Cardinality(Range(IntakeIds(i))) = Len(IntakeIds(i))))

C30_Witness ==
    /\ 1 \in PipelineRows
    /\ call.d.rows[1]["Course Intake Ids"] = Str("1,2")
    /\ call.d.rows[1]["Course start date"] = Str("2024-09-01,2025-01-15")
    /\ ret.result.rows[1]["Course start date"] = Str("2024-09-01")
    /\ HasCountRecord(1)
====
